---- MODULE Spec2Model ----
(***************************************************************************)
(* The `destructure` derive macros (src/src/lib.rs).                       *)
(*                                                                         *)
(* Two layers are modelled:                                                *)
(*   - the derivation engine: derive_destructure, derive_destructure_ref   *)
(*     and derive_mutation as functions from a DeriveInput to the emitted  *)
(*     items (SpecGen);                                                    *)
(*   - the emitted methods at run time: into_destruct, freeze,             *)
(*     reconstruct, try_reconstruct, substitute, try_substitute, acting on *)
(*     a record value through the field clauses the engine emits (Spec).   *)
(***************************************************************************)
EXTENDS Integers, Sequences, FiniteSets, TLC

VARIABLES
    ast,      \* the DeriveInput handed to the macro
    derive,   \* which derive macro ran ("none" before expansion)
    output,   \* the emitted token stream, as a sequence of items
    self,     \* the source record value (a function from field names), or Moved
    dest,     \* the owning companion value between into_destruct and freeze
    edits,    \* the assignments made to dest since into_destruct
    call      \* the last method call: method, closure, value before, outcome

vars == <<ast, derive, output, self, dest, edits, call>>

\* ---------------------------------------------------------------- bounds

MaxFields == 2
MaxEdits == 2
MaxLifetimes == 1
MaxTypeParams == 2

\* ------------------------------------------------------------ input model

FieldNames == <<"a", "b", "c", "d">>
TypeParamNames == <<"A", "B", "C">>
LifetimeNames == {"'a", "'mutation", "'__origin_destruct_lifetime"}
Types == {"String", "u64"}
Values == {"v0", "v1"}
Errors == {"e1", "e2"}

\* What a field's #[destructure(...)] attribute holds: nothing, the bare skip
\* flag, the skip flag with an argument, or a directive that is not skip.
Attrs == {"none", "skip", "skip_arg", "unknown"}

\* syn::DeriveInput's data: a struct with named fields, a tuple struct, a unit
\* struct or an enum.
DataKinds == {"named", "tuple", "unit", "enum"}

RECURSIVE DistinctSeqs(_, _)
DistinctSeqs(S, n) ==
    IF n = 0 THEN {<<>>}
    ELSE LET shorter == DistinctSeqs(S, n - 1)
         IN shorter \cup
            {Append(s, x) : s \in {t \in shorter : Len(t) = n - 1}, x \in S}

NoDup(s) == \A i, j \in 1..Len(s) : i # j => s[i] # s[j]

LifetimeParams ==
    {[i \in 1..Len(s) |-> [kind |-> "lifetime", ident |-> s[i], bounds |-> FALSE]] :
        s \in {t \in DistinctSeqs(LifetimeNames, MaxLifetimes) : NoDup(t)}}

TypeParams ==
    UNION {{[i \in 1..k |-> [kind |-> "type", ident |-> TypeParamNames[i], bounds |-> b[i]]] :
                b \in [1..k -> BOOLEAN]} : k \in 0..MaxTypeParams}

\* syn::Generics of a declaration the host compiler accepts: the lifetime
\* parameters come before the type parameters.
GenericsSet == {l \o t : l \in LifetimeParams, t \in TypeParams}

FieldsOf(TypeSet, AttrSet) ==
    UNION {{[i \in 1..k |-> [ident |-> FieldNames[i], ty |-> f[i].ty, attr |-> f[i].attr]] :
                f \in [1..k -> [ty : TypeSet, attr : AttrSet]]} : k \in 0..MaxFields}

Inputs ==
    {[ident |-> "Book", generics |-> g, data |-> "named", fields |-> fs] :
        g \in GenericsSet, fs \in FieldsOf(Types, Attrs)}
    \cup
    {[ident |-> "Book", generics |-> g, data |-> d, fields |-> <<>>] :
        g \in GenericsSet, d \in DataKinds \ {"named"}}

\* The declarations of a program that is run: named fields, attributes the
\* engine accepts, no parameters (as in tests/05, 07 and 11).
RunInputs ==
    {[ident |-> "Book", generics |-> <<>>, data |-> "named", fields |-> fs] :
        fs \in FieldsOf({"String"}, {"none", "skip"})}

Idents(fields) == {fields[i].ident : i \in DOMAIN fields}

\* ------------------------------------------------------- token printing

Lifetimes(params) == SelectSeq(params, LAMBDA p : p.kind = "lifetime")
NonLifetimes(params) == SelectSeq(params, LAMBDA p : p.kind # "lifetime")

\* `#generics` in quote!: syn prints a Generics with its lifetimes before its
\* type and const parameters, whatever their order in params, each parameter
\* with its bounds.
ToTokens(params) == Lifetimes(params) \o NonLifetimes(params)

\* `#ident #generics` is a path applied to the printed parameter list.
Path(ident, params) == [ident |-> ident, args |-> ToTokens(params)]

\* quote_spanned! { span => compile_error!(msg) }
CompileError(span, msg) == [kind |-> "compile_error", msg |-> msg, span |-> span]

NamedFieldsMsg == "Only structures with named fields are supported."
UnrecognizedMsg == "unrecognized attribute."

\* Attributes::from_field (darling, attributes(destructure), skip: Flag): Ok
\* with the flag absent or present; Err on a directive it does not know or a
\* flag that carries an argument.
from_field(field) ==
    IF field.attr \in {"none", "skip"}
    THEN [ok |-> TRUE, skip |-> field.attr = "skip"]
    ELSE [ok |-> FALSE, skip |-> FALSE]

\* ------------------------------------------------------ derive(Destructure)

\* One declaration clause per field: `pub name: ty`, `name: ty` for a skipped
\* field, or the compile_error! the closure returns in the clause's place.
destruction_all_pub(field) ==
    [kind |-> "field", vis |-> "pub", ident |-> field.ident,
     ty |-> [ref |-> "owned", lifetime |-> "", of |-> field.ty]]
destruction(field) ==
    LET attr == from_field(field)
    IN IF ~attr.ok
       THEN CompileError(field.ident, UnrecognizedMsg)
       ELSE [kind |-> "field",
             vis |-> IF attr.skip THEN "inherited" ELSE "pub",
             ident |-> field.ident,
             ty |-> [ref |-> "owned", lifetime |-> "", of |-> field.ty]]

\* `name: self.name`, one clause per field, in field order.
constructor_first(fields) ==
    [i \in 1..Len(fields) |->
        [ident |-> fields[i].ident, access |-> "move", from |-> fields[1].ident]]
constructor(fields) ==
    [i \in 1..Len(fields) |->
        [ident |-> fields[i].ident, access |-> "move", from |-> fields[i].ident]]

\* let freeze = constructor.clone();
freeze_clauses(fields) == constructor(fields)

Method(name, generics, tys, lit, body) ==
    [name |-> name, generics |-> generics, tys |-> tys, lit |-> lit, body |-> body]

derive_destructure(input) ==
    LET name == input.ident
        generics == input.generics
        generate_ident == "Destruct" \o name
        fields == input.fields
    IN IF input.data # "named"
       THEN << CompileError(name, NamedFieldsMsg) >>
       ELSE <<
         [kind |-> "struct", ident |-> generate_ident,
          generics |-> ToTokens(generics),
          fields |-> [i \in 1..Len(fields) |-> destruction(fields[i])]],
         [kind |-> "impl", generics |-> ToTokens(generics),
          self_ty |-> Path(name, generics),
          methods |-> <<
            Method("into_destruct", <<>>,
                   << [at |-> "return", path |-> Path(generate_ident, generics)] >>,
                   generate_ident, constructor(fields)),
            Method("reconstruct", <<>>,
                   << [at |-> "param", path |-> Path(generate_ident, generics)] >>,
                   "", <<>>),
            Method("try_reconstruct", <<>>,
                   << [at |-> "param", path |-> Path(generate_ident, generics)] >>,
                   "", <<>>) >>],
         [kind |-> "impl", generics |-> ToTokens(generics),
          self_ty |-> Path(generate_ident, generics),
          methods |-> <<
            Method("freeze", <<>>,
                   << [at |-> "return", path |-> Path(name, generics)] >>,
                   name, freeze_clauses(fields)) >>] >>

\* --------------------------------------------------- derive(DestructureRef)

origin_lifetime ==
    [kind |-> "lifetime", ident |-> "'__origin_destruct_lifetime", bounds |-> FALSE]

\* destructure_generics.params.push(GenericParam::Lifetime(origin_lifetime))
destructure_generics(generics) == Append(generics, origin_lifetime)

derive_destructure_ref(input) ==
    LET name == input.ident
        generics == input.generics
        generate_ident == "Destruct" \o name \o "Ref"
        fields == input.fields
    IN IF input.data # "named"
       THEN << CompileError(name, NamedFieldsMsg) >>
       ELSE <<
         [kind |-> "struct", ident |-> generate_ident,
          generics |-> ToTokens(destructure_generics(generics)),
          fields |-> [i \in 1..Len(fields) |->
                        [kind |-> "field", vis |-> "pub", ident |-> fields[i].ident,
                         ty |-> [ref |-> "shared", lifetime |-> origin_lifetime.ident,
                                 of |-> fields[i].ty]]]],
         [kind |-> "impl", generics |-> ToTokens(generics),
          self_ty |-> Path(name, generics),
          methods |-> <<
            Method("as_destruct", << origin_lifetime >>,
                   << [at |-> "return",
                       path |-> Path(generate_ident, destructure_generics(generics))] >>,
                   generate_ident,
                   [i \in 1..Len(fields) |->
                        [ident |-> fields[i].ident, access |-> "ref",
                         from |-> fields[i].ident]]) >>] >>

\* ---------------------------------------------------------- derive(Mutation)

\* Lifetime::new("'mutation", generics.span())
lifetime == [kind |-> "lifetime", ident |-> "'mutation", bounds |-> FALSE]

\* quote! { <#lifetime, #(#generics_gn,)*> }: the parameters as declared, one
\* by one, after the new lifetime.
generics_with_lt(generics) == << lifetime >> \o generics

\* `name: &mut self.name`, one clause per field, in field order.
expanded_first(fields) ==
    [i \in 1..Len(fields) |->
        [ident |-> fields[i].ident, access |-> "ref_mut", from |-> fields[1].ident]]
expanded(fields) ==
    [i \in 1..Len(fields) |->
        [ident |-> fields[i].ident, access |-> "ref_mut", from |-> fields[i].ident]]

derive_mutation_no_check(input) ==
    << [kind |-> "struct", ident |-> input.ident \o "Mut",
        generics |-> generics_with_lt(input.generics),
        fields |-> <<>>] >>
derive_mutation(input) ==
    LET name == input.ident
        generics == input.generics
        generate_ident == name \o "Mut"
        fields == input.fields
    IN IF input.data # "named"
       THEN << CompileError(name, NamedFieldsMsg) >>
       ELSE <<
         [kind |-> "struct", ident |-> generate_ident,
          generics |-> generics_with_lt(generics),
          fields |-> [i \in 1..Len(fields) |->
                        [kind |-> "field", vis |-> "pub", ident |-> fields[i].ident,
                         ty |-> [ref |-> "mut", lifetime |-> "'mutation",
                                 of |-> fields[i].ty]]]],
         [kind |-> "impl", generics |-> ToTokens(generics),
          self_ty |-> Path(name, generics),
          methods |-> <<
            Method("substitute", <<>>,
                   << [at |-> "param", path |-> Path(generate_ident, generics)] >>,
                   generate_ident, expanded(fields)),
            Method("try_substitute", <<>>,
                   << [at |-> "param", path |-> Path(generate_ident, generics)] >>,
                   generate_ident, expanded(fields)) >>] >>

\* ------------------------------------------------- the emitted code at run time

Range(s) == {s[i] : i \in DOMAIN s}

Impls(out) == {item \in Range(out) : item.kind = "impl"}
Methods(out) == UNION {Range(item.methods) : item \in Impls(out)}
MethodBody(out, name) == (CHOOSE m \in Methods(out) : m.name = name).body

\* A struct literal `Name { ident: <access> self.from, ... }` evaluated on v:
\* moved fields carry the value, borrowed fields the place they point to.
Literal(clauses, v) ==
    [n \in {c.ident : c \in Range(clauses)} |->
        LET c == CHOOSE c \in Range(clauses) : c.ident = n
        IN IF c.access = "move" THEN v[c.from] ELSE c.from]

\* A closure, as what it does when called once: the field assignments it makes
\* through its argument, in order, and the value it returns.
Closures(idents, results) ==
    {[edits |-> e, res |-> r] :
        e \in UNION {[1..n -> [field : idents, val : Values]] : n \in 0..MaxEdits},
        r \in results}

NoF == [edits |-> <<>>, res |-> "Ok"]

\* des.field = val, on the owning companion.
RECURSIVE Assign(_, _)
Assign(d, es) ==
    IF es = <<>> THEN d
    ELSE Assign([d EXCEPT ![Head(es).field] = Head(es).val], Tail(es))

\* *des.field = val, through the mutable reference the companion holds.
RECURSIVE AssignThrough(_, _, _)
AssignThrough(v, refs, es) ==
    IF es = <<>> THEN v
    ELSE AssignThrough([v EXCEPT ![refs[Head(es).field]] = Head(es).val], refs, Tail(es))

into_destruct(out, v) == Literal(MethodBody(out, "into_destruct"), v)

freeze(out, d) == Literal(MethodBody(out, "freeze"), d)

Ret(tag, val, err) == [tag |-> tag, val |-> val, err |-> err]

reconstruct_no_call(out, v, f) ==
    [ret |-> Ret("value", {freeze(out, into_destruct(out, v))}, "none"),
     trace |-> <<"into_destruct", "freeze">>]
reconstruct(out, v, f) ==
    LET dest0 == into_destruct(out, v)
        dest1 == Assign(dest0, f.edits)
    IN [ret |-> Ret("value", {freeze(out, dest1)}, "none"),
        trace |-> <<"into_destruct", "f", "freeze">>]

try_reconstruct_no_question_mark(out, v, f) ==
    [ret |-> Ret("Ok", {freeze(out, Assign(into_destruct(out, v), f.edits))}, "none"),
     trace |-> <<"into_destruct", "f", "freeze">>]
try_reconstruct(out, v, f) ==
    LET dest0 == into_destruct(out, v)
        dest1 == Assign(dest0, f.edits)
    IN IF f.res # "Ok"
       THEN [ret |-> Ret("Err", {}, f.res), trace |-> <<"into_destruct", "f">>]
       ELSE [ret |-> Ret("Ok", {freeze(out, dest1)}, "none"),
             trace |-> <<"into_destruct", "f", "freeze">>]

substitute(out, v, f) ==
    LET refs == Literal(MethodBody(out, "substitute"), v)
    IN [self |-> AssignThrough(v, refs, f.edits),
        ret |-> Ret("unit", {}, "none"),
        companion |-> MethodBody(out, "substitute"),
        trace |-> <<"companion", "f">>]

try_substitute_rollback(out, v, f) ==
    LET refs == Literal(MethodBody(out, "try_substitute"), v)
    IN [self |-> IF f.res = "Ok" THEN AssignThrough(v, refs, f.edits) ELSE v,
        ret |-> IF f.res = "Ok" THEN Ret("Ok", {}, "none") ELSE Ret("Err", {}, f.res),
        companion |-> MethodBody(out, "try_substitute"),
        trace |-> <<"companion", "f">>]
try_substitute(out, v, f) ==
    LET refs == Literal(MethodBody(out, "try_substitute"), v)
    IN [self |-> AssignThrough(v, refs, f.edits),
        ret |-> IF f.res = "Ok" THEN Ret("Ok", {}, "none") ELSE Ret("Err", {}, f.res),
        companion |-> MethodBody(out, "try_substitute"),
        trace |-> <<"companion", "f">>]

\* ------------------------------------------------------------ the engine

NoCall ==
    [method |-> "none", f |-> NoF, before |-> {}, ret |-> Ret("none", {}, "none"),
     companion |-> <<>>, trace |-> <<>>]

InitGen ==
    /\ ast \in Inputs
    /\ derive = "none"
    /\ output = <<>>
    /\ self = {}
    /\ dest = {}
    /\ edits = <<>>
    /\ call = NoCall

DeriveDestructure ==
    /\ derive = "none"
    /\ derive' = "Destructure"
    /\ output' = derive_destructure(ast)
    /\ UNCHANGED <<ast, self, dest, edits, call>>

DeriveDestructureRef ==
    /\ derive = "none"
    /\ derive' = "DestructureRef"
    /\ output' = derive_destructure_ref(ast)
    /\ UNCHANGED <<ast, self, dest, edits, call>>

DeriveMutation ==
    /\ derive = "none"
    /\ derive' = "Mutation"
    /\ output' = derive_mutation(ast)
    /\ UNCHANGED <<ast, self, dest, edits, call>>

NextGen == DeriveDestructure \/ DeriveDestructureRef \/ DeriveMutation

SpecGen == InitGen /\ [][NextGen]_vars

\* ------------------------------------------------------- the program run

\* #[derive(Destructure, Mutation)] on the declaration, then one value of it.
Init ==
    /\ ast \in RunInputs
    /\ derive = "Destructure, Mutation"
    /\ output = derive_destructure(ast) \o derive_mutation(ast)
    /\ self \in {{v} : v \in [Idents(ast.fields) -> Values]}
    /\ dest = {}
    /\ edits = <<>>
    /\ call = NoCall

\* The companion's fields code outside the defining module may assign.
PubFields(out) ==
    LET decl == CHOOSE item \in Range(out) :
                    item.kind = "struct" /\ item.ident = "Destruct" \o ast.ident
    IN {c.ident : c \in {c \in Range(decl.fields) : c.vis = "pub"}}

\* let mut destruct = domain.into_destruct();
IntoDestruct ==
    /\ call.method = "none"
    /\ \E v \in self :
        /\ dest' = {into_destruct(output, v)}
        /\ call' = [NoCall EXCEPT !.method = "into_destruct", !.before = {v},
                                  !.trace = <<"into_destruct">>]
    /\ self' = {}
    /\ UNCHANGED <<ast, derive, output, edits>>

\* destruct.a = "aa".to_string();
AssignDest ==
    /\ Len(edits) < MaxEdits
    /\ \E d \in dest, n \in PubFields(output), x \in Values :
        /\ dest' = {[d EXCEPT ![n] = x]}
        /\ edits' = Append(edits, [field |-> n, val |-> x])
    /\ UNCHANGED <<ast, derive, output, self, call>>

\* let domain = destruct.freeze();
Freeze ==
    /\ \E d \in dest :
        /\ self' = {freeze(output, d)}
        /\ call' = [call EXCEPT !.method = "freeze", !.trace = Append(@, "freeze")]
    /\ dest' = {}
    /\ UNCHANGED <<ast, derive, output, edits>>

\* let book = book.reconstruct(f);
Reconstruct ==
    /\ call.method = "none"
    /\ \E v \in self, f \in Closures(Idents(ast.fields), {"Ok"}) :
        LET r == reconstruct(output, v, f)
        IN /\ self' = r.ret.val
           /\ call' = [method |-> "reconstruct", f |-> f, before |-> {v},
                       ret |-> r.ret, companion |-> <<>>, trace |-> r.trace]
    /\ UNCHANGED <<ast, derive, output, dest, edits>>

\* let book = book.try_reconstruct(f)?;
TryReconstruct ==
    /\ call.method = "none"
    /\ \E v \in self, f \in Closures(Idents(ast.fields), {"Ok"} \cup Errors) :
        LET r == try_reconstruct(output, v, f)
        IN /\ self' = r.ret.val
           /\ call' = [method |-> "try_reconstruct", f |-> f, before |-> {v},
                       ret |-> r.ret, companion |-> <<>>, trace |-> r.trace]
    /\ UNCHANGED <<ast, derive, output, dest, edits>>

\* book.substitute(f);
Substitute ==
    /\ call.method = "none"
    /\ \E v \in self, f \in Closures(Idents(ast.fields), {"Ok"}) :
        LET r == substitute(output, v, f)
        IN /\ self' = {r.self}
           /\ call' = [method |-> "substitute", f |-> f, before |-> {v},
                       ret |-> r.ret, companion |-> r.companion, trace |-> r.trace]
    /\ UNCHANGED <<ast, derive, output, dest, edits>>

\* book.try_substitute(f)
TrySubstitute ==
    /\ call.method = "none"
    /\ \E v \in self, f \in Closures(Idents(ast.fields), {"Ok"} \cup Errors) :
        LET r == try_substitute(output, v, f)
        IN /\ self' = {r.self}
           /\ call' = [method |-> "try_substitute", f |-> f, before |-> {v},
                       ret |-> r.ret, companion |-> r.companion, trace |-> r.trace]
    /\ UNCHANGED <<ast, derive, output, dest, edits>>

Next ==
    \/ IntoDestruct
    \/ AssignDest
    \/ Freeze
    \/ Reconstruct
    \/ TryReconstruct
    \/ Substitute
    \/ TrySubstitute

Spec == Init /\ [][Next]_vars

\* ------------------------------------------------------------- properties

\* Whether the assignments es write field n, and the last value they give it.
Assigns(es, n) == \E i \in DOMAIN es : es[i].field = n
LastAssigned(es, n) ==
    LET last == CHOOSE i \in DOMAIN es :
                    /\ es[i].field = n
                    /\ \A j \in DOMAIN es : es[j].field = n => j <= i
    IN es[last].val

\* The record that holds, field by field, the last value es assigns and
\* otherwise the value of v.
Edited(v, es) ==
    [n \in DOMAIN v |-> IF Assigns(es, n) THEN LastAssigned(es, n) ELSE v[n]]

Count(s, x) == Cardinality({i \in DOMAIN s : s[i] = x})

HasSkip(fields) == \E i \in DOMAIN fields : fields[i].attr = "skip"

\* C1. Round-trip identity: v.into_destruct().freeze() with no assignment in
\* between gives back a record equal to v, field by field, and so does
\* v.reconstruct(f) with a closure that assigns nothing; skip-marked fields
\* included.
RoundTripIdentity ==
    /\ (call.method = "freeze" /\ edits = <<>>) =>
            /\ self = call.before
            /\ call.trace = <<"into_destruct", "freeze">>
    /\ (call.method = "reconstruct" /\ call.f.edits = <<>>) =>
            /\ call.ret.val = call.before
            /\ self = call.before

RoundTripWitness ==
    /\ call.method = "freeze"
    /\ edits = <<>>
    /\ HasSkip(ast.fields)
    /\ \E v \in self : \E m, n \in DOMAIN v : v[m] # v[n]

\* C2. Field correspondence under reconstruct: v.reconstruct(f) runs
\* into_destruct, f once, freeze, in that order, and returns the record whose
\* every field f assigned holds the last value f gave it and whose every other
\* field holds its value in v.
FieldCorrespondence ==
    call.method = "reconstruct" =>
        /\ call.trace = <<"into_destruct", "f", "freeze">>
        /\ \E v \in call.before :
            /\ call.ret.val = {Edited(v, call.f.edits)}
            /\ \A r \in call.ret.val : \A n \in Idents(ast.fields) :
                 r[n] = IF Assigns(call.f.edits, n)
                        THEN LastAssigned(call.f.edits, n) ELSE v[n]

FieldCorrespondenceWitness ==
    /\ call.method = "reconstruct"
    /\ Len(call.f.edits) = 2
    /\ call.f.edits[1].field = call.f.edits[2].field
    /\ call.f.edits[1].val # call.f.edits[2].val
    /\ \E v \in call.before : \E n \in DOMAIN v :
         /\ ~Assigns(call.f.edits, n)
         /\ v[n] # call.f.edits[2].val
         /\ v[call.f.edits[2].field] # call.f.edits[2].val

\* C3. Failure preservation of try_reconstruct: when f returns Err(e) the call
\* returns Err(e) with the same e, freeze is not invoked and no record reaches
\* the caller; when f returns Ok(()) the call returns Ok(r), r the frozen
\* companion after f's assignments.
FailurePreservation ==
    call.method = "try_reconstruct" =>
        IF call.f.res # "Ok"
        THEN /\ call.ret.tag = "Err"
             /\ call.ret.err = call.f.res
             /\ call.ret.val = {}
             /\ self = {}
             /\ Count(call.trace, "freeze") = 0
             /\ Count(call.trace, "f") = 1
        ELSE /\ call.ret.tag = "Ok"
             /\ \E v \in call.before : call.ret.val = {Edited(v, call.f.edits)}
             /\ Count(call.trace, "freeze") = 1

FailurePreservationWitness ==
    /\ call.method = "try_reconstruct"
    /\ call.f.res \in Errors
    /\ \E v \in call.before : Edited(v, call.f.edits) # v

\* C4. Substitute totality: substitute(f) builds one companion holding one
\* mutable reference per source field, each to its own field, invokes f
\* exactly once, and leaves the source with the last value f assigned in each
\* field f assigned and the earlier value in each other field.
SubstituteTotality ==
    call.method = "substitute" =>
        /\ Count(call.trace, "companion") = 1
        /\ Count(call.trace, "f") = 1
        /\ Len(call.companion) = Len(ast.fields)
        /\ \A i \in DOMAIN ast.fields :
             /\ call.companion[i].ident = ast.fields[i].ident
             /\ call.companion[i].from = ast.fields[i].ident
             /\ call.companion[i].access = "ref_mut"
        /\ \E v \in call.before : self = {Edited(v, call.f.edits)}

SubstituteTotalityWitness ==
    /\ call.method = "substitute"
    /\ Len(ast.fields) >= 2
    /\ Len(call.f.edits) = 2
    /\ call.f.edits[1].field = call.f.edits[2].field
    /\ call.f.edits[1].val # call.f.edits[2].val
    /\ self # call.before

\* C5. Failure semantics of try_substitute: the call returns what f returned,
\* Err(e) with the same e or Ok(()), and either way the source keeps every
\* assignment f made (no rollback) and no other field changes.
TrySubstituteFailure ==
    call.method = "try_substitute" =>
        /\ call.ret.tag = (IF call.f.res = "Ok" THEN "Ok" ELSE "Err")
        /\ call.ret.err = (IF call.f.res = "Ok" THEN "none" ELSE call.f.res)
        /\ Count(call.trace, "f") = 1
        /\ \E v \in call.before : self = {Edited(v, call.f.edits)}

TrySubstituteFailureWitness ==
    /\ call.method = "try_substitute"
    /\ call.f.res \in Errors
    /\ call.ret.tag = "Err"
    /\ self # call.before
    /\ \E v \in call.before : \E n \in DOMAIN v : \A w \in self : w[n] = v[n]

\* An input every derivation accepts: named fields, and on each field no
\* directive or the bare skip flag.
Valid(input) ==
    /\ input.data = "named"
    /\ \A i \in DOMAIN input.fields : input.fields[i].attr \in {"none", "skip"}

Structs(out) == {item \in Range(out) : item.kind = "struct"}
Diagnostics(out) == {item \in Range(out) : item.kind = "compile_error"}

\* C6. Shape validation: each derivation, given a tuple struct, a unit struct
\* or an enum, emits one compile_error! anchored at the type name with the
\* named-fields message and nothing else: no companion, no method block.
ShapeValidation ==
    (derive # "none" /\ ast.data # "named") =>
        /\ Len(output) = 1
        /\ output[1].kind = "compile_error"
        /\ output[1].span = ast.ident
        /\ output[1].msg = "Only structures with named fields are supported."
        /\ Structs(output) = {}
        /\ Impls(output) = {}

ShapeValidationWitness ==
    /\ derive = "Mutation"
    /\ ast.data = "tuple"
    /\ Len(output) = 1

\* C7. Attribute errors are terminal: when a field of the input to Destructure
\* carries an unrecognized directive, or skip with an argument, the output is
\* a diagnostic at that field's span and nothing else: no companion
\* declaration and no method block.
AttributeErrorsTerminal ==
    (derive = "Destructure" /\ ast.data = "named"
        /\ \E i \in DOMAIN ast.fields : ast.fields[i].attr \in {"unknown", "skip_arg"}) =>
        /\ Structs(output) = {}
        /\ Impls(output) = {}
        /\ \E d \in Diagnostics(output) :
             \E i \in DOMAIN ast.fields :
                /\ ast.fields[i].attr \in {"unknown", "skip_arg"}
                /\ d.span = ast.fields[i].ident

\* C8. Shape of the Destructure companion: on a valid input DestructN has the
\* source's fields, same names, order and types, a field is pub exactly when
\* it is not marked skip, and into_destruct and freeze move every field, the
\* skip-marked ones too.
CompanionShape ==
    (derive = "Destructure" /\ Valid(ast)) =>
        /\ Cardinality(Structs(output)) = 1
        /\ \A decl \in Structs(output) :
            /\ decl.ident = "DestructBook"
            /\ Len(decl.fields) = Len(ast.fields)
            /\ \A i \in DOMAIN ast.fields :
                /\ decl.fields[i].kind = "field"
                /\ decl.fields[i].ident = ast.fields[i].ident
                /\ decl.fields[i].ty.of = ast.fields[i].ty
                /\ decl.fields[i].ty.ref = "owned"
                /\ (decl.fields[i].vis = "pub") <=> (ast.fields[i].attr # "skip")
        /\ \A name \in {"into_destruct", "freeze"} :
            LET body == MethodBody(output, name)
            IN /\ Len(body) = Len(ast.fields)
               /\ \A i \in DOMAIN ast.fields :
                    /\ body[i].ident = ast.fields[i].ident
                    /\ body[i].from = ast.fields[i].ident
                    /\ body[i].access = "move"

CompanionShapeWitness ==
    /\ derive = "Destructure"
    /\ Valid(ast)
    /\ output # <<>>
    /\ \E i, j \in DOMAIN ast.fields :
        /\ ast.fields[i].attr = "skip"
        /\ ast.fields[j].attr = "none"
        /\ ast.fields[i].ty # ast.fields[j].ty

\* C9. Synthetic lifetime: on every valid input to DestructureRef and to
\* Mutation the companion's parameter list is the source's list, in its order,
\* with one synthesized lifetime added in first position, whose name differs
\* from every lifetime the source declares.
SyntheticLifetime ==
    (derive \in {"DestructureRef", "Mutation"} /\ Valid(ast)) =>
        \A decl \in Structs(output) :
            /\ Len(decl.generics) = Len(ast.generics) + 1
            /\ decl.generics[1].kind = "lifetime"
            /\ Tail(decl.generics) = ast.generics
            /\ \A i \in DOMAIN ast.generics :
                 ast.generics[i].kind = "lifetime" =>
                    ast.generics[i].ident # decl.generics[1].ident

\* The parameters the declaration of `ident` takes: the source's, or those of
\* the companion emitted beside it.
Declared(ident) ==
    IF ident = ast.ident THEN ast.generics
    ELSE (CHOOSE decl \in Structs(output) : decl.ident = ident).generics

ParamIdents(params) == {params[i].ident : i \in DOMAIN params}

\* A path applied to arguments the host compiler accepts: each argument a bare
\* name in scope, never `T: Bound`; as many type arguments as the declaration
\* has type parameters; as many lifetime arguments as it has lifetime
\* parameters, or, in a method signature, none at all (elided).
WellApplied(path, at, scope) ==
    /\ \A i \in DOMAIN path.args :
        /\ ~path.args[i].bounds
        /\ path.args[i].ident \in scope
    /\ Len(NonLifetimes(path.args)) = Len(NonLifetimes(Declared(path.ident)))
    /\ \/ Len(Lifetimes(path.args)) = Len(Lifetimes(Declared(path.ident)))
       \/ at # "self_ty" /\ Lifetimes(path.args) = <<>>

\* C10. Generics preservation: whatever lifetime and type parameters the
\* source has, bounded ones included, every emitted method block declares the
\* source's parameters and applies the source type and the companion type to
\* them as well-formed arguments, so that the output type-checks.
GenericsPreservation ==
    (derive # "none" /\ Valid(ast)) =>
        /\ \A decl \in Structs(output) : NoDup(decl.generics)
        /\ \A block \in Impls(output) :
            /\ block.generics = ast.generics
            /\ WellApplied(block.self_ty, "self_ty", ParamIdents(block.generics))
            /\ \A m \in Range(block.methods) : \A t \in Range(m.tys) :
                 WellApplied(t.path, t.at,
                             ParamIdents(block.generics) \cup ParamIdents(m.generics))

\* The lifetimes a companion's field types mention.
UsedLifetimes(decl) ==
    {c.ty.lifetime : c \in {c \in Range(decl.fields) : c.kind = "field"}}

\* A declaration the host compiler accepts: every field clause is a field,
\* no parameter is declared twice and every lifetime parameter is used by a
\* field (an unused parameter is rejected, E0392).
WellFormedDecl(decl) ==
    /\ \A c \in Range(decl.fields) : c.kind = "field"
    /\ NoDup(decl.generics)
    /\ \A i \in DOMAIN decl.generics :
         decl.generics[i].kind = "lifetime" =>
            decl.generics[i].ident \in UsedLifetimes(decl)

\* A record with named-field syntax and no fields, `struct Book {}`; having no
\* field it can use no parameter, so it declares none.
ZeroFieldInput(input) ==
    /\ input.data = "named"
    /\ input.fields = <<>>
    /\ input.generics = <<>>

\* C11. Zero-field records: for `struct Book {}` each of the three
\* derivations emits no diagnostic and a well-formed companion declaration
\* with an empty body, for DestructureRef and Mutation still carrying the
\* synthesized lifetime parameter, together with its method blocks.
ZeroFieldRecords ==
    (derive # "none" /\ ZeroFieldInput(ast)) =>
        /\ Diagnostics(output) = {}
        /\ Cardinality(Structs(output)) = 1
        /\ \A decl \in Structs(output) :
            /\ decl.fields = <<>>
            /\ (derive \in {"DestructureRef", "Mutation"}) =>
                    /\ Len(decl.generics) = 1
                    /\ decl.generics[1].kind = "lifetime"
            /\ WellFormedDecl(decl)
        /\ Impls(output) # {}
        /\ \A block \in Impls(output) : block.methods # <<>>

====
